---- MODULE Spec2Model ----
(***************************************************************************)
(* A model of salt/modules/saltcheck.py: the SaltCheck test runner (test   *)
(* validation, dispatch, coercion of the expected value, the twelve         *)
(* assertions) and the StateTestLoader (test file resolution and suite      *)
(* loading).                                                                *)
(*                                                                          *)
(* Python text is a sequence of characters (one-character strings); longer *)
(* literals of the source that are never taken apart are kept as single    *)
(* elements.  A Python value is a record with the same fields for every    *)
(* type: t (type name), n (number of a bool or int), s (characters of a    *)
(* str), k (keys of a dict), l (elements of a list, values of a dict).     *)
(* A call that can raise yields a record with the exception name in exc    *)
(* ("none" when it returned).  Python 3 semantics are modelled.            *)
(***************************************************************************)
EXTENDS Integers, Sequences, FiniteSets, TLC

VARIABLES
    test_dict,        \* run_test: the test definition passed in
    invoker_ret,      \* the value salt_lc.cmd returns when it is called
    minion,           \* what sys.list_modules / sys.list_functions report on this minion
    result,           \* run_test: how the call ended (returned record or raised)
    fn_call,          \* assertion / cast functions: the last call and its arguments
    fn_result,        \* assertion / cast functions: how the last call ended
    master_files,     \* the .tst files on the master's file roots, in listing order
    low_sls,          \* what state.show_low_sls returns for a known state
    request,          \* the arguments add_test_files_for_sls is called with
    stl_pc,           \* where the caller of the StateTestLoader is
    test_files,       \* StateTestLoader.test_files
    loader_test_dict, \* StateTestLoader.test_dict (ordered mapping, as pairs)
    cache_requests,   \* cp.cache_dir calls issued by the last add_test_files_for_sls
    entry_requests,   \* the same calls, by the plan entry they were issued for
    processed_states, \* processed_states at the end of the last add_test_files_for_sls
    resolve_exc,      \* the exception the last add_test_files_for_sls raised, or "none"
    last_load,        \* the order in which the last load_test_suite read its files
    sls_list,         \* run_state_tests: the state names of the batch
    state_index,      \* run_state_tests: which of them `for state_name in sls_list` is at
    batch_pc,         \* run_state_tests: where the call is
    batch_steps,      \* run_state_tests: how many steps the call has taken
    results,          \* run_state_tests: results (ordered mapping, as pairs)
    results_dict,     \* run_state_tests: results_dict of the state being run
    out_list,         \* what _generate_out_list returned
    retcode,          \* __context__['retcode'], -1 while it is not set
    batch_exc,        \* the exception that ended run_state_tests, or "none"
    test_time         \* the time each dispatched test of the batch takes

vars == <<test_dict, invoker_ret, minion, result, fn_call, fn_result,
          master_files, low_sls, request, stl_pc, test_files, loader_test_dict,
          cache_requests, entry_requests, processed_states, resolve_exc, last_load,
          sls_list, state_index, batch_pc, batch_steps, results, results_dict, out_list, retcode,
          batch_exc, test_time>>

runVars == <<test_dict, invoker_ret, minion, result>>
fnVars == <<fn_call, fn_result>>
loaderVars == <<master_files, low_sls, request, stl_pc, test_files, loader_test_dict,
                cache_requests, entry_requests, processed_states, resolve_exc, last_load>>
batchVars == <<sls_list, state_index, batch_pc, batch_steps, results, results_dict, out_list, retcode,
               batch_exc, test_time>>

-----------------------------------------------------------------------------
(* Python values *)

NoneV == [t |-> "NoneType", n |-> 0, s |-> <<>>, k |-> <<>>, l |-> <<>>]
BoolV(b) == [t |-> "bool", n |-> IF b THEN 1 ELSE 0, s |-> <<>>, k |-> <<>>, l |-> <<>>]
IntV(i) == [t |-> "int", n |-> i, s |-> <<>>, k |-> <<>>, l |-> <<>>]
StrV(cs) == [t |-> "str", n |-> 0, s |-> cs, k |-> <<>>, l |-> <<>>]
ListV(es) == [t |-> "list", n |-> 0, s |-> <<>>, k |-> <<>>, l |-> es]
DictV(ks, vs) == [t |-> "dict", n |-> 0, s |-> <<>>, k |-> ks, l |-> vs]

Ok(v) == [exc |-> "none", v |-> v]
Raise(e) == [exc |-> e, v |-> NoneV]

Numeric == {"bool", "int"}

\* bool(v), the truth value of v in `if v`, `not v`, `assert v`
Truthy(v) ==
    CASE v.t = "NoneType" -> FALSE
      [] v.t \in Numeric -> v.n # 0
      [] v.t = "str" -> v.s # <<>>
      [] v.t = "list" -> v.l # <<>>
      [] v.t = "dict" -> v.k # <<>>

DigitChars == <<"0", "1", "2", "3", "4", "5", "6", "7", "8", "9">>

RECURSIVE NatStr(_)
NatStr(n) ==
    IF n < 10 THEN <<DigitChars[n + 1]>>
    ELSE NatStr(n \div 10) \o <<DigitChars[(n % 10) + 1]>>

IntStr(i) == IF i < 0 THEN <<"-">> \o NatStr(0 - i) ELSE NatStr(i)

RECURSIVE PyStr(_), PyRepr(_), JoinRepr(_), JoinItems(_, _)

\* str(v), also what '{0}'.format(v) prints
PyStr(v) ==
    CASE v.t = "NoneType" -> <<"N", "o", "n", "e">>
      [] v.t = "bool" -> IF v.n = 1 THEN <<"T", "r", "u", "e">>
                         ELSE <<"F", "a", "l", "s", "e">>
      [] v.t = "int" -> IntStr(v.n)
      [] v.t = "str" -> v.s
      [] v.t = "list" -> <<"[">> \o JoinRepr(v.l) \o <<"]">>
      [] v.t = "dict" -> <<"{">> \o JoinItems(v.k, v.l) \o <<"}">>

\* repr(v): a str is quoted, everything else prints as str(v)
PyRepr(v) == IF v.t = "str" THEN <<"'">> \o v.s \o <<"'">> ELSE PyStr(v)

JoinRepr(es) ==
    IF es = <<>> THEN <<>>
    ELSE IF Len(es) = 1 THEN PyRepr(es[1])
    ELSE PyRepr(es[1]) \o <<",", " ">> \o JoinRepr(Tail(es))

JoinItems(ks, vs) ==
    IF ks = <<>> THEN <<>>
    ELSE IF Len(ks) = 1 THEN PyRepr(ks[1]) \o <<":", " ">> \o PyRepr(vs[1])
    ELSE PyRepr(ks[1]) \o <<":", " ">> \o PyRepr(vs[1]) \o <<",", " ">>
         \o JoinItems(Tail(ks), Tail(vs))

RECURSIVE PyEq(_, _)

\* a == b
PyEq(a, b) ==
    CASE a.t \in Numeric /\ b.t \in Numeric -> a.n = b.n
      [] a.t = "str" /\ b.t = "str" -> a.s = b.s
      [] a.t = "list" /\ b.t = "list" ->
            /\ Len(a.l) = Len(b.l)
            /\ \A i \in 1..Len(a.l) : PyEq(a.l[i], b.l[i])
      [] a.t = "dict" /\ b.t = "dict" ->
            /\ Len(a.k) = Len(b.k)
            /\ \A i \in 1..Len(a.k) :
                  \E j \in 1..Len(b.k) : PyEq(a.k[i], b.k[j]) /\ PyEq(a.l[i], b.l[j])
      [] a.t = "NoneType" /\ b.t = "NoneType" -> TRUE
      [] OTHER -> FALSE

\* the order of characters (their code points)
Alphabet == <<" ", "'", "+", ",", "-", ".", "0", "1", "2", "3", "4", "5", "6", "7",
              "8", "9", ":", "F", "N", "T", "[", "]", "a", "b", "e", "l", "n", "o",
              "r", "s", "u", "x", "{", "}">>

Ord(c) == CHOOSE i \in 1..Len(Alphabet) : Alphabet[i] = c

Sign(d) == IF d < 0 THEN 0 - 1 ELSE IF d > 0 THEN 1 ELSE 0

RECURSIVE StrCmp(_, _)
StrCmp(x, y) ==
    IF x = <<>> \/ y = <<>> THEN Sign(Len(x) - Len(y))
    ELSE IF x[1] # y[1] THEN Sign(Ord(x[1]) - Ord(y[1]))
    ELSE StrCmp(Tail(x), Tail(y))

RECURSIVE Cmp(_, _), ListCmp(_, _)

\* ordering of a and b as <, <=, >, >= use it: c is -1, 0 or 1; operands that
\* Python 3 cannot order raise TypeError
Cmp(a, b) ==
    CASE a.t \in Numeric /\ b.t \in Numeric -> [exc |-> "none", c |-> Sign(a.n - b.n)]
      [] a.t = "str" /\ b.t = "str" -> [exc |-> "none", c |-> StrCmp(a.s, b.s)]
      [] a.t = "list" /\ b.t = "list" -> ListCmp(a.l, b.l)
      [] OTHER -> [exc |-> "TypeError", c |-> 0]

\* lists compare by their first pair of unequal elements, then by length
ListCmp(x, y) ==
    IF x = <<>> \/ y = <<>> THEN [exc |-> "none", c |-> Sign(Len(x) - Len(y))]
    ELSE IF PyEq(x[1], y[1]) THEN ListCmp(Tail(x), Tail(y))
    ELSE Cmp(x[1], y[1])

Hashable(v) == v.t \notin {"list", "dict"}

IsSubstring(x, y) ==
    \E i \in 0..(Len(y) - Len(x)) : SubSeq(y, i + 1, i + Len(x)) = x

\* e in r
Contains(e, r) ==
    CASE r.t = "str" ->
            IF e.t = "str" THEN [exc |-> "none", b |-> IsSubstring(e.s, r.s)]
            ELSE [exc |-> "TypeError", b |-> FALSE]
      [] r.t = "list" ->
            [exc |-> "none", b |-> \E i \in 1..Len(r.l) : PyEq(e, r.l[i])]
      [] r.t = "dict" ->
            IF Hashable(e) THEN [exc |-> "none", b |-> \E i \in 1..Len(r.k) : PyEq(e, r.k[i])]
            ELSE [exc |-> "TypeError", b |-> FALSE]
      [] OTHER -> [exc |-> "TypeError", b |-> FALSE]

-----------------------------------------------------------------------------
(* the type constructors ret_type(expected) of _cast_expected_to_returned_type *)

IsDigit(c) == \E i \in 1..10 : DigitChars[i] = c
DigitVal(c) == (CHOOSE i \in 1..10 : DigitChars[i] = c) - 1

RECURSIVE DigitsVal(_)
DigitsVal(cs) ==
    IF cs = <<>> THEN 0
    ELSE 10 * DigitsVal(SubSeq(cs, 1, Len(cs) - 1)) + DigitVal(cs[Len(cs)])

RECURSIVE Strip(_)
\* cs.strip(): int() ignores blanks around the literal
Strip(cs) ==
    IF cs = <<>> THEN cs
    ELSE IF cs[1] = " " THEN Strip(Tail(cs))
    ELSE IF cs[Len(cs)] = " " THEN Strip(SubSeq(cs, 1, Len(cs) - 1))
    ELSE cs

HasSign(cs) == cs # <<>> /\ cs[1] \in {"-", "+"}
Unsigned(cs) == IF HasSign(cs) THEN Tail(cs) ELSE cs

IsIntLiteral(cs) ==
    /\ Unsigned(cs) # <<>>
    /\ \A i \in 1..Len(Unsigned(cs)) : IsDigit(Unsigned(cs)[i])

ParseInt(cs) ==
    IF HasSign(cs) /\ cs[1] = "-" THEN 0 - DigitsVal(Unsigned(cs))
    ELSE DigitsVal(Unsigned(cs))

\* int(x)
PyInt(x) ==
    CASE x.t \in Numeric -> Ok(IntV(x.n))
      [] x.t = "str" ->
            IF IsIntLiteral(Strip(x.s)) THEN Ok(IntV(ParseInt(Strip(x.s))))
            ELSE Raise("ValueError")
      [] OTHER -> Raise("TypeError")

\* list(x)
PyList(x) ==
    CASE x.t = "str" -> Ok(ListV([i \in 1..Len(x.s) |-> StrV(<<x.s[i]>>)]))
      [] x.t = "list" -> Ok(x)
      [] x.t = "dict" -> Ok(ListV(x.k))
      [] OTHER -> Raise("TypeError")

\* d[key] = val on the dict with keys ks and values vs
DictSet(d, key, val) ==
    IF \E i \in 1..Len(d.k) : PyEq(d.k[i], key)
    THEN DictV(d.k, [i \in 1..Len(d.k) |-> IF PyEq(d.k[i], key) THEN val ELSE d.l[i]])
    ELSE DictV(Append(d.k, key), Append(d.l, val))

\* the elements of v when v can be iterated (a dict yields its keys)
Elements(v) ==
    CASE v.t = "str" -> [i \in 1..Len(v.s) |-> StrV(<<v.s[i]>>)]
      [] v.t = "list" -> v.l
      [] v.t = "dict" -> v.k
      [] OTHER -> <<>>

Iterable(v) == v.t \in {"str", "list", "dict"}

RECURSIVE DictFromPairs(_, _)
\* dict(iterable): every element must be a sequence of length two with a
\* hashable first element; the first element that is not ends the call
DictFromPairs(es, d) ==
    IF es = <<>> THEN Ok(d)
    ELSE IF ~Iterable(es[1]) THEN Raise("TypeError")
    ELSE IF Len(Elements(es[1])) # 2 THEN Raise("ValueError")
    ELSE IF ~Hashable(Elements(es[1])[1]) THEN Raise("TypeError")
    ELSE DictFromPairs(Tail(es), DictSet(d, Elements(es[1])[1], Elements(es[1])[2]))

\* dict(x)
PyDict(x) ==
    CASE x.t = "dict" -> Ok(x)
      [] x.t \in {"str", "list"} -> DictFromPairs(Elements(x), DictV(<<>>, <<>>))
      [] OTHER -> Raise("TypeError")

\* ret_type(expected) for ret_type the type named ty
Construct(ty, x) ==
    CASE ty = "bool" -> Ok(BoolV(Truthy(x)))
      [] ty = "int" -> PyInt(x)
      [] ty = "str" -> Ok(StrV(PyStr(x)))
      [] ty = "list" -> PyList(x)
      [] ty = "dict" -> PyDict(x)
      [] OTHER -> Raise("TypeError")

FalseText == StrV(<<"F", "a", "l", "s", "e">>)
TrueText == StrV(<<"T", "r", "u", "e">>)

\* the local `expected` after the special case for the text "False"
CastInput(expected, returned) ==
    IF PyEq(expected, FalseText) /\ returned.t = "bool" THEN BoolV(FALSE) ELSE expected

\* a plausible slip: booleans read by comparing the text with "True"
CastBoolByText(expected, returned) ==
    IF returned.t = "NoneType" THEN Ok(expected)
    ELSE IF returned.t = "bool" THEN Ok(BoolV(PyEq(expected, TrueText)))
    ELSE IF Construct(returned.t, expected).exc = "none" THEN Construct(returned.t, expected)
    ELSE IF Construct(returned.t, expected).exc = "ValueError" THEN Ok(expected)
    ELSE Raise(Construct(returned.t, expected).exc)

\* SaltCheck._cast_expected_to_returned_type: only ValueError is caught
_cast_expected_to_returned_type(expected, returned) ==
    IF returned.t = "NoneType" THEN Ok(expected)
    ELSE IF Construct(returned.t, CastInput(expected, returned)).exc = "none"
         THEN Construct(returned.t, CastInput(expected, returned))
    ELSE IF Construct(returned.t, CastInput(expected, returned)).exc = "ValueError"
         THEN Ok(expected)
    ELSE Raise(Construct(returned.t, CastInput(expected, returned)).exc)

-----------------------------------------------------------------------------
(* the twelve assertions: each yields [exc, status] *)

Pass == <<"Pass">>
Fail(msg) == <<"Fail: ">> \o msg

Returned(status) == [exc |-> "none", status |-> status]
Raised(e) == [exc |-> e, status |-> <<>>]

\* try: assert cond, msg / except AssertionError: "Fail: " + msg
AssertThat(cond, msg) == Returned(IF cond THEN Pass ELSE Fail(msg))

__assert_equal(expected, returned, assert_print_result) ==
    AssertThat(PyEq(expected, returned),
               IF assert_print_result
               THEN PyStr(expected) \o <<" is not equal to ">> \o PyStr(returned)
               ELSE <<"Result is not equal">>)

__assert_not_equal(expected, returned, assert_print_result) ==
    AssertThat(~PyEq(expected, returned),
               IF assert_print_result
               THEN PyStr(expected) \o <<" is equal to ">> \o PyStr(returned)
               ELSE <<"Result is equal">>)

\* returned is True
__assert_true(returned) ==
    AssertThat(returned.t = "bool" /\ returned.n = 1, PyStr(returned) \o <<" not True">>)

\* a str is replaced by bool(returned) first; then returned is False
AssertFalseOperand(returned) ==
    IF returned.t = "str" THEN BoolV(Truthy(returned)) ELSE returned

__assert_false(returned) ==
    AssertThat(AssertFalseOperand(returned).t = "bool" /\ AssertFalseOperand(returned).n = 0,
               PyStr(AssertFalseOperand(returned)) \o <<" not False">>)

\* the membership test is inside the try, but only AssertionError is caught
__assert_in(expected, returned, assert_print_result) ==
    IF Contains(expected, returned).exc # "none" THEN Raised(Contains(expected, returned).exc)
    ELSE AssertThat(Contains(expected, returned).b,
                    IF assert_print_result
                    THEN PyStr(expected) \o <<" not found in ">> \o PyStr(returned)
                    ELSE <<"Result not found">>)

__assert_not_in(expected, returned, assert_print_result) ==
    IF Contains(expected, returned).exc # "none" THEN Raised(Contains(expected, returned).exc)
    ELSE AssertThat(~Contains(expected, returned).b,
                    IF assert_print_result
                    THEN PyStr(expected) \o <<" was found in ">> \o PyStr(returned)
                    ELSE <<"Result was found">>)

__assert_greater(expected, returned) ==
    IF Cmp(expected, returned).exc # "none" THEN Raised(Cmp(expected, returned).exc)
    ELSE AssertThat(Cmp(expected, returned).c > 0, PyStr(returned) \o <<" not False">>)

__assert_greater_equal(expected, returned) ==
    IF Cmp(expected, returned).exc # "none" THEN Raised(Cmp(expected, returned).exc)
    ELSE AssertThat(Cmp(expected, returned).c >= 0, PyStr(returned) \o <<" not False">>)

__assert_less(expected, returned) ==
    IF Cmp(expected, returned).exc # "none" THEN Raised(Cmp(expected, returned).exc)
    ELSE AssertThat(Cmp(expected, returned).c < 0, PyStr(returned) \o <<" not False">>)

__assert_less_equal(expected, returned) ==
    IF Cmp(expected, returned).exc # "none" THEN Raised(Cmp(expected, returned).exc)
    ELSE AssertThat(Cmp(expected, returned).c <= 0, PyStr(returned) \o <<" not False">>)

__assert_empty(returned) ==
    AssertThat(~Truthy(returned), PyStr(returned) \o <<" is not empty">>)

__assert_not_empty(returned) ==
    AssertThat(Truthy(returned), <<"value is empty">>)

\* self.assertions_list
assertions_list ==
    {"assertEqual", "assertNotEqual", "assertTrue", "assertFalse", "assertIn",
     "assertNotIn", "assertGreater", "assertGreaterEqual", "assertLess",
     "assertLessEqual", "assertEmpty", "assertNotEmpty"}

-----------------------------------------------------------------------------
(* SaltCheck: validation *)

RECURSIVE Split(_, _)
\* s.split(sep) for a one-element separator
Split(s, sep) ==
    IF \A i \in 1..Len(s) : s[i] # sep THEN <<s>>
    ELSE <<SubSeq(s, 1, (CHOOSE i \in 1..Len(s) :
                             s[i] = sep /\ \A j \in 1..(i - 1) : s[j] # sep) - 1)>>
         \o Split(SubSeq(s, (CHOOSE i \in 1..Len(s) :
                                 s[i] = sep /\ \A j \in 1..(i - 1) : s[j] # sep) + 1,
                         Len(s)), sep)

StateApply == <<"saltcheck", ".", "state_apply">>

\* the execution functions there are, by module
AllFunctions ==
    {<<"test", ".", "echo">>, <<"test", ".", "ping">>, StateApply}

\* __salt__['sys.list_functions'](module_name) on minion m
ListFunctions(m, module_name) ==
    {f \in AllFunctions : <<f[1]>> = module_name /\ module_name \in m.modules}

\* _is_valid_module
_is_valid_module(m, module) == module \in m.modules

\* _is_valid_function: a failed lookup leaves a list no function name is in
_is_valid_function(m, module_name, function) ==
    IF m.lookup = "raises" THEN FALSE
    ELSE (module_name \o <<".">> \o function) \in ListFunctions(m, module_name)

\* a slip: four points are enough whatever the assertion
RequiredTotalFour(t) ==
    IF t.skip THEN 0
    ELSE IF t.has_mf /\ t.mf = StateApply THEN 2
    ELSE 4


\* required_total of __is_valid_test
RequiredTotal(t) ==
    IF t.skip THEN 0
    ELSE IF t.has_mf /\ t.mf = StateApply THEN 2
    ELSE IF t.has_assertion
            /\ t.assertion \in {"assertEmpty", "assertNotEmpty", "assertTrue", "assertFalse"}
         THEN 4
    ELSE 6

\* `if m_and_f:` is taken for a present, non-empty operation
MfTruthy(t) == t.has_mf /\ t.mf # <<>>

Points(b) == IF b THEN 1 ELSE 0

\* tots of __is_valid_test, when the unpacking of m_and_f.split('.') succeeded
Tots(t, m) ==
    (IF MfTruthy(t)
     THEN 1 + Points(_is_valid_module(m, Split(t.mf, ".")[1]))
            + Points(_is_valid_function(m, Split(t.mf, ".")[1], Split(t.mf, ".")[2]))
     ELSE 0)
    + Points(t.has_assertion /\ t.assertion \in assertions_list)
    + Points(t.has_expected)
    + Points(t.has_expected /\ t.expected.t # "NoneType")

\* test_errors of __is_valid_test
TestErrors(t, m) ==
    (IF MfTruthy(t) /\ ~_is_valid_module(m, Split(t.mf, ".")[1])
     THEN <<"is not a valid module">> ELSE <<>>)
    \o (IF MfTruthy(t)
           /\ ~_is_valid_function(m, Split(t.mf, ".")[1], Split(t.mf, ".")[2])
        THEN <<"is not a valid function">> ELSE <<>>)
    \o (IF t.has_assertion /\ t.assertion \in assertions_list
        THEN <<>> ELSE <<"is not in the assertions list">>)
    \o (IF t.has_expected THEN <<>> ELSE <<"No expected return key">>)
    \o (IF t.has_expected /\ t.expected.t # "NoneType"
        THEN <<>> ELSE <<"expected-return does not have a value">>)

\* SaltCheck.__is_valid_test on minion m: `module, function = m_and_f.split('.')`
\* raises ValueError unless the split yields exactly two parts
__is_valid_test(t, m) ==
    IF MfTruthy(t) /\ Len(Split(t.mf, ".")) # 2
    THEN [exc |-> "ValueError", valid |-> FALSE, tots |-> 1,
          required_total |-> RequiredTotal(t), test_errors |-> <<>>]
    ELSE [exc |-> "none", valid |-> Tots(t, m) >= RequiredTotal(t), tots |-> Tots(t, m),
          required_total |-> RequiredTotal(t), test_errors |-> TestErrors(t, m)]

-----------------------------------------------------------------------------
(* SaltCheck: dispatch and run_test *)

IndexOfKey(d, key) == CHOOSE i \in 1..Len(d.k) : PyEq(d.k[i], key)
HasKey(d, key) == \E i \in 1..Len(d.k) : PyEq(d.k[i], key)

\* the first dict of a list that holds key (a list element looked up by name)
EmbeddedWith(es, key) ==
    CHOOSE i \in 1..Len(es) :
        /\ es[i].t = "dict" /\ HasKey(es[i], key)
        /\ \A j \in 1..(i - 1) : ~(es[j].t = "dict" /\ HasKey(es[j], key))

RECURSIVE Traverse(_, _, _)
\* salt.utils.data.traverse_dict_and_list over the split key: a missing key, an
\* index out of range or a value that cannot be indexed yields the default
Traverse(ptr, parts, default) ==
    IF parts = <<>> THEN ptr
    ELSE IF ptr.t = "list"
    THEN IF IsIntLiteral(Strip(parts[1]))
         THEN IF ParseInt(Strip(parts[1])) >= 0 /\ ParseInt(Strip(parts[1])) < Len(ptr.l)
              THEN Traverse(ptr.l[ParseInt(Strip(parts[1])) + 1], Tail(parts), default)
              ELSE IF ParseInt(Strip(parts[1])) < 0
                      /\ 0 - ParseInt(Strip(parts[1])) <= Len(ptr.l)
              THEN Traverse(ptr.l[Len(ptr.l) + ParseInt(Strip(parts[1])) + 1],
                            Tail(parts), default)
              ELSE default
         ELSE IF \E i \in 1..Len(ptr.l) : ptr.l[i].t = "dict" /\ HasKey(ptr.l[i], StrV(parts[1]))
              THEN Traverse(ptr.l[EmbeddedWith(ptr.l, StrV(parts[1]))]
                               .l[IndexOfKey(ptr.l[EmbeddedWith(ptr.l, StrV(parts[1]))],
                                             StrV(parts[1]))],
                            Tail(parts), default)
              ELSE default
    ELSE IF ptr.t = "dict" /\ HasKey(ptr, StrV(parts[1]))
    THEN Traverse(ptr.l[IndexOfKey(ptr, StrV(parts[1]))], Tail(parts), default)
    ELSE default

traverse_dict_and_list(data, key, default, delimiter) ==
    Traverse(data, Split(key, delimiter), default)

DEFAULT_TARGET_DELIM == ":"

\* kwargs as run_test passes them on: pillar-data is put under 'pillar', and
\* without pillar-data a 'pillar' left in kwargs is dropped
CallKwargs(t) ==
    IF t.pillar_data THEN t.kwargs \cup {"pillar"} ELSE t.kwargs \ {"pillar"}

\* the call made on salt_lc.cmd; the four call shapes of _call_salt_command
\* pass args and kwargs only when they are non-empty
InvokerCall(t) ==
    [fun |-> t.mf,
     shape |-> IF t.args # <<>> /\ CallKwargs(t) # {} THEN "args+kwargs"
               ELSE IF t.args # <<>> THEN "args"
               ELSE IF CallKwargs(t) # {} THEN "kwargs"
               ELSE "none",
     args |-> t.args,
     kwargs |-> CallKwargs(t)]

\* SaltCheck._call_salt_command, inv being how salt_lc.cmd ends: an exception
\* of the invoker is re-raised; a section is taken out of a dict result only
_call_salt_command(t, inv) ==
    IF inv.exc # "none" THEN inv
    ELSE IF inv.v.t = "dict" /\ t.has_section /\ t.section # <<>>
    THEN Ok(traverse_dict_and_list(inv.v, t.section, BoolV(FALSE), t.delimiter))
    ELSE inv

\* a plausible slip: the declared assertion used for the apply alias too
AssertionDeclared(t) == t.assertion

\* the assertion run_test evaluates: the apply alias forces assertNotEmpty
Assertion(t) == IF t.mf = StateApply THEN "assertNotEmpty" ELSE t.assertion

NoCast == {"assertIn", "assertNotIn", "assertEmpty", "assertNotEmpty",
           "assertTrue", "assertFalse"}

\* expected_return when the assertion is evaluated
ExpectedReturn(t, actual) ==
    IF Assertion(t) \in NoCast THEN Ok(t.expected)
    ELSE _cast_expected_to_returned_type(t.expected, actual)

\* the if/elif chain over the assertion name; desc is assertion_desc, left
\* unbound by the final else
Evaluate(assertion, expected, actual, print_result) ==
    CASE assertion = "assertEqual" ->
            [desc |-> "==", out |-> __assert_equal(expected, actual, print_result)]
      [] assertion = "assertNotEqual" ->
            [desc |-> "!=", out |-> __assert_not_equal(expected, actual, print_result)]
      [] assertion = "assertTrue" -> [desc |-> "True is", out |-> __assert_true(actual)]
      [] assertion = "assertFalse" -> [desc |-> "False is", out |-> __assert_false(actual)]
      [] assertion = "assertIn" ->
            [desc |-> "IS IN", out |-> __assert_in(expected, actual, print_result)]
      [] assertion = "assertNotIn" ->
            [desc |-> "IS NOT IN", out |-> __assert_not_in(expected, actual, print_result)]
      [] assertion = "assertGreater" ->
            [desc |-> ">", out |-> __assert_greater(expected, actual)]
      [] assertion = "assertGreaterEqual" ->
            [desc |-> ">=", out |-> __assert_greater_equal(expected, actual)]
      [] assertion = "assertLess" -> [desc |-> "<", out |-> __assert_less(expected, actual)]
      [] assertion = "assertLessEqual" ->
            [desc |-> "<=", out |-> __assert_less_equal(expected, actual)]
      [] assertion = "assertEmpty" -> [desc |-> "IS EMPTY:", out |-> __assert_empty(actual)]
      [] assertion = "assertNotEmpty" ->
            [desc |-> "IS NOT EMPTY:", out |-> __assert_not_empty(actual)]
      [] OTHER -> [desc |-> "unbound", out |-> Returned(<<"Fail - bad assertion">>)]

NoCalls == <<>>

\* how a run_test call ended.  kind: "return" or "raise"; validation: what
\* __is_valid_test did; calls: the calls made on the operation invoker;
\* assertion, raw, actual: the assertion evaluated, the value salt_lc.cmd
\* returned and the value asserted on (asserted says whether one was)
Ended(kind, exc, status, duration, validation, calls, asserted, assertion, raw, actual, desc) ==
    [kind |-> kind, exc |-> exc, status |-> status, duration |-> duration,
     validation |-> validation, calls |-> calls, asserted |-> asserted,
     assertion |-> assertion, raw |-> raw, actual |-> actual, assertion_desc |-> desc]

RaisedBefore(exc, validation, calls) ==
    Ended("raise", exc, <<>>, 0, validation, calls, FALSE, "", NoneV, NoneV, "unbound")

\* the tail of run_test after the assertion: building the record reads
\* assertion_desc, which is unbound unless one of the twelve branches ran
Finish(t, m, raw, actual, ev, elapsed) ==
    IF ev.out.exc # "none"
    THEN Ended("raise", ev.out.exc, <<>>, 0, __is_valid_test(t, m), <<InvokerCall(t)>>,
               TRUE, Assertion(t), raw, actual, ev.desc)
    ELSE IF ev.desc = "unbound"
    THEN Ended("raise", "UnboundLocalError", <<>>, 0, __is_valid_test(t, m),
               <<InvokerCall(t)>>, FALSE, Assertion(t), raw, actual, ev.desc)
    ELSE Ended("return", "none", ev.out.status, elapsed, __is_valid_test(t, m),
               <<InvokerCall(t)>>, TRUE, Assertion(t), raw, actual, ev.desc)

\* run_test from the dispatch on
Dispatch(t, m, inv, elapsed) ==
    IF _call_salt_command(t, inv).exc # "none"
    THEN RaisedBefore(inv.exc, __is_valid_test(t, m), <<InvokerCall(t)>>)
    ELSE IF ExpectedReturn(t, _call_salt_command(t, inv).v).exc # "none"
    THEN RaisedBefore(ExpectedReturn(t, _call_salt_command(t, inv).v).exc,
                      __is_valid_test(t, m), <<InvokerCall(t)>>)
    ELSE Finish(t, m, inv.v, _call_salt_command(t, inv).v,
                Evaluate(Assertion(t), ExpectedReturn(t, _call_salt_command(t, inv).v).v,
                         _call_salt_command(t, inv).v, t.print_result),
                elapsed)

\* return {'status': 'Skip', 'duration': 0.0}
SkipRecord(v, elapsed) ==
    Ended("return", "none", <<"Skip">>, 0, v, NoCalls, FALSE, "", NoneV, NoneV, "unbound")

\* SaltCheck.run_test on minion m, the invoker ending as inv and the clock
\* advancing by elapsed (in units of 0.0001 s) during the call
run_test(t, m, inv, elapsed) ==
    IF __is_valid_test(t, m).exc # "none"
    THEN RaisedBefore(__is_valid_test(t, m).exc, __is_valid_test(t, m), NoCalls)
    ELSE IF ~__is_valid_test(t, m).valid
    THEN \* value = "Fail - invalid test"; the record is never built, because
         \* `assertion_desc in [...]` reads a local that was not bound
         RaisedBefore("UnboundLocalError", __is_valid_test(t, m), NoCalls)
    ELSE IF t.skip THEN SkipRecord(__is_valid_test(t, m), elapsed)
    ELSE IF ~t.has_mf THEN RaisedBefore("KeyError", __is_valid_test(t, m), NoCalls)
    ELSE IF t.mf # StateApply /\ ~t.has_assertion
    THEN RaisedBefore("KeyError", __is_valid_test(t, m), NoCalls)
    ELSE Dispatch(t, m, inv, elapsed)

-----------------------------------------------------------------------------
(* inputs *)

\* the longest time one run_test call takes, in units of 0.0001 s
MaxElapsed == 1

SampleValues ==
    {NoneV, BoolV(TRUE), BoolV(FALSE), IntV(0), IntV(5), IntV(0 - 3),
     StrV(<<>>), StrV(<<"5">>), StrV(<<" ", "5">>), StrV(<<"a", "b">>), FalseText, TrueText,
     ListV(<<>>), ListV(<<StrV(<<"a">>)>>), ListV(<<StrV(<<"a", "b">>)>>),
     ListV(<<IntV(5), StrV(<<"a">>)>>),
     DictV(<<>>, <<>>), DictV(<<StrV(<<"a">>)>>, <<StrV(<<"5">>)>>)}

\* module_and_function: well formed (known or not), empty, without a
\* separator, with two separators
Operations ==
    {<<"test", ".", "echo">>, StateApply, <<"test", ".", "nofunc">>, <<"pkg", ".", "echo">>,
     <<>>, <<"foo">>, <<"a", ".", "b", ".", "c">>}

AssertionNames == assertions_list \cup {"assertBogus"}

ExpectedValues == {NoneV, StrV(<<"5">>), IntV(5), ListV(<<StrV(<<"a">>)>>)}

Sections == {<<"a">>, <<"x">>, <<"a", ":", "b">>}

\* what the operation invoker does when called
InvokerOutcomes ==
    {Raise("SaltException"), Ok(NoneV), Ok(BoolV(TRUE)), Ok(IntV(5)), Ok(StrV(<<>>)),
     Ok(StrV(<<"5">>)), Ok(DictV(<<>>, <<>>)),
     Ok(DictV(<<StrV(<<"a">>)>>, <<StrV(<<"5">>)>>)),
     Ok(DictV(<<StrV(<<"a">>)>>, <<DictV(<<StrV(<<"b">>)>>, <<StrV(<<"5">>)>>)>>))}

Minions ==
    {[modules |-> {<<"test">>, <<"saltcheck">>}, lookup |-> "ok"],
     [modules |-> {<<"test">>}, lookup |-> "ok"],
     [modules |-> {<<"test">>, <<"saltcheck">>}, lookup |-> "raises"]}

TestDict(skip, has_mf, mf, has_assertion, assertion, has_expected, expected, has_section, section, args, kwargs, pillar_data, print_result) ==
    [skip |-> skip, has_mf |-> has_mf, mf |-> mf, has_assertion |-> has_assertion,
     assertion |-> assertion, has_expected |-> has_expected, expected |-> expected,
     has_section |-> has_section, section |-> section, delimiter |-> DEFAULT_TARGET_DELIM,
     args |-> args, kwargs |-> kwargs, pillar_data |-> pillar_data,
     print_result |-> print_result]

\* test definitions with every combination of skip, operation, assertion and
\* expected-return, called without arguments
PlainTests ==
    {TestDict(skip, mf[1], mf[2], a[1], a[2], e[1], e[2], FALSE, <<>>, <<>>, {}, FALSE, TRUE) :
        skip \in BOOLEAN,
        mf \in {<<FALSE, <<>>>>} \cup {<<TRUE, o>> : o \in Operations},
        a \in {<<FALSE, "">>} \cup {<<TRUE, n>> : n \in AssertionNames},
        e \in {<<FALSE, NoneV>>} \cup {<<TRUE, x>> : x \in ExpectedValues}}

\* test definitions with an assertion_section
SectionTests ==
    {TestDict(FALSE, TRUE, mf, a[1], a[2], TRUE, StrV(<<"5">>), TRUE, sec, <<>>, {}, FALSE, TRUE) :
        mf \in {<<"test", ".", "echo">>, StateApply},
        a \in {<<FALSE, "">>} \cup {<<TRUE, n>> : n \in AssertionNames},
        sec \in Sections}

\* test definitions with args, kwargs, pillar-data and print_result
ArgumentTests ==
    {TestDict(FALSE, TRUE, <<"test", ".", "echo">>, TRUE, a, TRUE, StrV(<<"5">>), FALSE, <<>>,
              args, kwargs, pillar, print) :
        a \in {"assertEqual", "assertIn", "assertNotEmpty"},
        args \in {<<>>, <<StrV(<<"5">>)>>},
        kwargs \in {{}, {"x"}, {"pillar"}},
        pillar \in BOOLEAN,
        print \in BOOLEAN}

\* test definitions with an assertion_section_delimiter of their own
DelimiterTests ==
    {[TestDict(FALSE, TRUE, <<"test", ".", "echo">>, TRUE, a, TRUE, StrV(<<"5">>), TRUE, sec,
               <<>>, {}, FALSE, TRUE) EXCEPT !.delimiter = "/"] :
        a \in {"assertEqual", "assertNotEmpty", "assertIn"},
        sec \in {<<"a", "/", "b">>, <<"a", ":", "b">>, <<"a">>}}

TestDicts == PlainTests \cup SectionTests \cup ArgumentTests \cup DelimiterTests

IdleValidation ==
    [exc |-> "none", valid |-> FALSE, tots |-> 0, required_total |-> 0, test_errors |-> <<>>]

IdleResult ==
    Ended("idle", "none", <<>>, 0, IdleValidation, NoCalls, FALSE, "", NoneV, NoneV, "unbound")

IdleCall == [fn |-> "idle", expected |-> NoneV, returned |-> NoneV, print_result |-> TRUE]
IdleFnResult == [stage |-> "idle", exc |-> "none", status |-> <<>>, v |-> NoneV,
                 exc2 |-> "none", v2 |-> NoneV]

IdleTest ==
    TestDict(FALSE, FALSE, <<>>, FALSE, "", FALSE, NoneV, FALSE, <<>>, <<>>, {}, FALSE, TRUE)

RunIdle ==
    /\ test_dict = IdleTest
    /\ invoker_ret = Ok(NoneV)
    /\ minion = [modules |-> {}, lookup |-> "ok"]
    /\ result = IdleResult

FnIdle == fn_call = IdleCall /\ fn_result = IdleFnResult

\* StateTestLoader.__init__, and nothing called on it yet
NewLoader ==
    /\ stl_pc = "new"
    /\ test_files = {}
    /\ loader_test_dict = <<>>
    /\ cache_requests = <<>>
    /\ entry_requests = <<>>
    /\ processed_states = <<>>
    /\ resolve_exc = "none"
    /\ last_load = <<>>

LoaderIdle ==
    /\ master_files = <<>>
    /\ low_sls = <<>>
    /\ request = [sls_name |-> <<>>, check_all |-> FALSE]
    /\ NewLoader

\* run_state_tests entered: nothing run, __context__['retcode'] not set
NewBatch ==
    /\ state_index = 1
    /\ batch_steps = 0
    /\ results = <<>>
    /\ results_dict = <<>>
    /\ out_list = <<>>
    /\ retcode = 0 - 1
    /\ batch_exc = "none"

BatchIdle ==
    /\ sls_list = <<>>
    /\ batch_pc = "idle"
    /\ test_time = 0
    /\ NewBatch

-----------------------------------------------------------------------------
(* run_test on one test definition *)

Init ==
    /\ test_dict \in TestDicts
    /\ invoker_ret \in InvokerOutcomes
    /\ minion \in Minions
    /\ result = IdleResult
    /\ FnIdle
    /\ LoaderIdle
    /\ BatchIdle

\* scheck.run_test(test_dict)
RunTest ==
    /\ result.kind = "idle"
    /\ \E elapsed \in 0..MaxElapsed :
          result' = run_test(test_dict, minion, invoker_ret, elapsed)
    /\ UNCHANGED <<test_dict, invoker_ret, minion, fnVars, loaderVars, batchVars>>

Next == RunTest

Spec == Init /\ [][Next]_vars

-----------------------------------------------------------------------------
(* the assertion functions and the cast, called on their own *)

FnNames == assertions_list \cup {"cast"}

InitFn ==
    /\ fn_call \in [fn : FnNames, expected : SampleValues, returned : SampleValues,
                    print_result : BOOLEAN]
    /\ fn_result = IdleFnResult
    /\ RunIdle
    /\ LoaderIdle
    /\ BatchIdle

\* one of the twelve __assert_* functions
CallAssertion ==
    /\ fn_result.stage = "idle"
    /\ fn_call.fn \in assertions_list
    /\ fn_result' =
          [stage |-> "called",
           exc |-> Evaluate(fn_call.fn, fn_call.expected, fn_call.returned,
                            fn_call.print_result).out.exc,
           status |-> Evaluate(fn_call.fn, fn_call.expected, fn_call.returned,
                               fn_call.print_result).out.status,
           v |-> NoneV, exc2 |-> "none", v2 |-> NoneV]
    /\ UNCHANGED <<fn_call, runVars, loaderVars, batchVars>>

\* _cast_expected_to_returned_type(expected, returned)
CallCast ==
    /\ fn_result.stage = "idle"
    /\ fn_call.fn = "cast"
    /\ fn_result' =
          [stage |-> "called",
           exc |-> _cast_expected_to_returned_type(fn_call.expected, fn_call.returned).exc,
           status |-> <<>>,
           v |-> _cast_expected_to_returned_type(fn_call.expected, fn_call.returned).v,
           exc2 |-> "none", v2 |-> NoneV]
    /\ UNCHANGED <<fn_call, runVars, loaderVars, batchVars>>

\* the cast applied to its own result, with the same returned value
CastAgain ==
    /\ fn_result.stage = "called"
    /\ fn_call.fn = "cast"
    /\ fn_result.exc = "none"
    /\ fn_result' =
          [fn_result EXCEPT
              !.stage = "recast",
              !.exc2 = _cast_expected_to_returned_type(fn_result.v, fn_call.returned).exc,
              !.v2 = _cast_expected_to_returned_type(fn_result.v, fn_call.returned).v]
    /\ UNCHANGED <<fn_call, runVars, loaderVars, batchVars>>

NextFn == CallAssertion \/ CallCast \/ CastAgain

SpecFn == InitFn /\ [][NextFn]_vars

-----------------------------------------------------------------------------
(* properties of run_test and of validation, under Spec *)

Ran == result.kind # "idle"

\* C1: every test definition with skip=true makes run_test return a record
\* with status "Skip" and duration 0.0, and the operation is never dispatched,
\* whatever the other fields hold.
C1_SkipAlwaysReportsSkip ==
    (Ran /\ test_dict.skip) =>
        /\ result.kind = "return"
        /\ result.status = <<"Skip">>
        /\ result.duration = 0
        /\ result.calls = NoCalls

\* C2: for every non-skipped test definition that fails validation, run_test
\* returns normally a record with status "Fail - invalid test", and the
\* operation invoker is not called.
C2_InvalidTestIsReported ==
    (Ran /\ ~test_dict.skip /\ result.validation.exc = "none" /\ ~result.validation.valid) =>
        /\ result.kind = "return"
        /\ result.status = <<"Fail - invalid test">>
        /\ result.calls = NoCalls

\* the score and the threshold as the scoring rule states them
KnownVerbs(m) == IF m.lookup = "ok" THEN {f \in AllFunctions : <<f[1]>> \in m.modules} ELSE {}

RuleScore(t, m) ==
    Points(t.has_mf /\ t.mf # <<>>)
    + Points(t.has_mf /\ t.mf # <<>> /\ <<t.mf[1]>> \in m.modules)
    + Points(t.has_mf /\ t.mf \in KnownVerbs(m))
    + Points(t.has_assertion /\ t.assertion \in assertions_list)
    + Points(t.has_expected)
    + Points(t.has_expected /\ t.expected # NoneV)

RuleThreshold(t) ==
    IF t.skip THEN 0
    ELSE IF t.has_mf /\ t.mf = StateApply THEN 2
    ELSE IF t.has_assertion
            /\ t.assertion \in {"assertEmpty", "assertNotEmpty", "assertTrue", "assertFalse"}
         THEN 4
    ELSE 6

\* C3: validation returns true iff the accumulated score (one point each for
\* operation present, namespace known, verb known in it, assertion in the
\* twelve, expected-return key present, expected-return value non-null) is at
\* least the threshold (0 skipped, 2 apply alias, 4 emptiness/truth assertion,
\* 6 otherwise).
C3_ValidIffScoreReachesThreshold ==
    Ran =>
        ((result.validation.exc = "none" /\ result.validation.valid)
            <=> (RuleScore(test_dict, minion) >= RuleThreshold(test_dict)))

\* the operation string is there and does not hold exactly one '.'
Malformed(t) == t.has_mf /\ Len(Split(t.mf, ".")) # 2

\* C4: for a (non-skipped) test definition whose operation string does not
\* contain exactly one '.' separator, validation returns false without raising.
C4_MalformedOperationIsInvalid ==
    (Ran /\ ~test_dict.skip /\ Malformed(test_dict)) =>
        (result.validation.exc = "none" /\ ~result.validation.valid)

IsApplyTest(t) == ~t.skip /\ t.has_mf /\ t.mf = StateApply

NotEmptyStatus(v) == IF Truthy(v) THEN <<"Pass">> ELSE <<"Fail: ", "value is empty">>

\* C5 as stated: a non-skipped saltcheck.state_apply test is valid iff its
\* score is at least 2, and run_test evaluates assertNotEmpty on the dispatched
\* result whatever assertion is declared: "Pass" iff the result the invoker
\* returned is truthy, else "Fail: value is empty".
C5_ApplyAliasAssertsOnDispatchedResult ==
    (Ran /\ IsApplyTest(test_dict)) =>
        /\ result.validation.exc = "none"
        /\ result.validation.valid <=> (result.validation.tots >= 2)
        /\ (result.validation.valid /\ invoker_ret.exc = "none") =>
              /\ result.kind = "return"
              /\ result.assertion = "assertNotEmpty"
              /\ result.status = NotEmptyStatus(invoker_ret.v)

\* C5 amended: a non-skipped saltcheck.state_apply test is valid iff its score
\* is at least 2, and run_test evaluates assertNotEmpty whatever assertion is
\* declared, on the value asserted on: the whole dispatched result, or its
\* assertion_section when the result is a mapping and a section is set.
C5_ApplyAliasAssertsNotEmpty ==
    (Ran /\ IsApplyTest(test_dict)) =>
        /\ result.validation.exc = "none"
        /\ result.validation.valid <=> (result.validation.tots >= 2)
        /\ (result.validation.valid /\ invoker_ret.exc = "none") =>
              /\ result.kind = "return"
              /\ result.assertion = "assertNotEmpty"
              /\ result.calls = <<InvokerCall(test_dict)>>
              /\ result.raw = invoker_ret.v
              /\ (invoker_ret.v.t # "dict" \/ ~test_dict.has_section)
                    => result.actual = invoker_ret.v
              /\ result.status = NotEmptyStatus(result.actual)

\* an apply test declaring an unknown assertion passed on a truthy result, and
\* one declaring assertEmpty failed on an empty one
C5_Witness ==
    /\ Ran /\ IsApplyTest(test_dict)
    /\ test_dict.has_assertion /\ test_dict.assertion = "assertBogus"
    /\ result.validation.tots = 2
    /\ result.kind = "return" /\ result.status = <<"Pass">>

-----------------------------------------------------------------------------
(* properties of the assertion functions and of the cast, under SpecFn *)

\* C6: each of the twelve assertion functions never raises: for every pair of
\* expected and actual values it returns "Pass" or a string beginning "Fail: ".
C6_AssertionsNeverRaise ==
    (fn_result.stage = "called" /\ fn_call.fn \in assertions_list) =>
        /\ fn_result.exc = "none"
        /\ fn_result.status = <<"Pass">> \/ Head(fn_result.status) = "Fail: "

\* C7: _cast_expected_to_returned_type never raises: with a null actual value
\* it returns expected unchanged, and when constructing the actual value's
\* type from expected fails it returns the original expected unchanged.
C7_CastNeverRaises ==
    (fn_result.stage = "called" /\ fn_call.fn = "cast") =>
        /\ fn_result.exc = "none"
        /\ fn_call.returned = NoneV => fn_result.v = fn_call.expected
        /\ (fn_call.returned # NoneV
            /\ Construct(fn_call.returned.t, CastInput(fn_call.expected, fn_call.returned)).exc
                  # "none")
              => fn_result.v = fn_call.expected

\* C8: coercion is idempotent: whenever the first coercion returned, coercing
\* its result again against the same actual value returns that same result.
C8_CastIdempotent ==
    fn_result.stage = "recast" => (fn_result.exc2 = "none" /\ fn_result.v2 = fn_result.v)

\* the text "False" against a boolean became false, and stayed false
C8_Witness ==
    /\ fn_result.stage = "recast"
    /\ fn_call.expected = FalseText /\ fn_call.returned.t = "bool"
    /\ fn_result.v = BoolV(FALSE) /\ fn_result.v2 = BoolV(FALSE)

-----------------------------------------------------------------------------
(* StateTestLoader: resolving the test files of a state *)

\* self.saltcheck_test_location: config.get('saltcheck_test_location', 'saltcheck-tests')
saltcheck_test_location == <<"saltcheck-tests">>

InSeq(x, xs) == \E i \in 1..Len(xs) : xs[i] = x

RECURSIVE Join(_, _)
\* sep.join(parts)
Join(parts, sep) ==
    IF parts = <<>> THEN <<>>
    ELSE IF Len(parts) = 1 THEN parts[1]
    ELSE parts[1] \o <<sep>> \o Join(Tail(parts), sep)

\* s.replace(old, new)
Replace(s, old, new) == [i \in 1..Len(s) |-> IF s[i] = old THEN new ELSE s[i]]

EndsWith(s, suffix) ==
    Len(suffix) <= Len(s) /\ SubSeq(s, Len(s) - Len(suffix) + 1, Len(s)) = suffix

StartsWith(s, prefix) == Len(prefix) <= Len(s) /\ SubSeq(s, 1, Len(prefix)) = prefix

RECURSIVE Keep(_, _)
\* the elements of xs that are in the set S, in order
Keep(xs, S) ==
    IF xs = <<>> THEN <<>>
    ELSE IF xs[1] \in S THEN <<xs[1]>> \o Keep(Tail(xs), S)
    ELSE Keep(Tail(xs), S)

\* os.path.normpath of a relative path: empty and '.' components dropped
normpath(path) ==
    Join(Keep(Split(path, "/"), {c \in {Split(path, "/")[i] : i \in 1..Len(Split(path, "/"))} :
                                    c # <<>> /\ c # <<".">>}), "/")

RECURSIVE PathJoin(_, _)
\* os.path.join(head, *rest): an absolute component starts over, a separator
\* is put after a non-empty head that does not end with one
PathJoin(head, rest) ==
    IF rest = <<>> THEN head
    ELSE IF StartsWith(rest[1], <<"/">>) THEN PathJoin(rest[1], Tail(rest))
    ELSE IF head = <<>> \/ EndsWith(head, <<"/">>) THEN PathJoin(head \o rest[1], Tail(rest))
    ELSE PathJoin(head \o <<"/">> \o rest[1], Tail(rest))

\* where the minion keeps the files it cached for saltenv base
CachePrefix == <<"/var/cache/salt/minion/files/base/">>

\* the directory a salt:// url names, ending with a separator
DirPrefix(path) ==
    IF EndsWith(IF StartsWith(path, <<"salt://">>) THEN Tail(path) ELSE path, <<"/">>)
    THEN (IF StartsWith(path, <<"salt://">>) THEN Tail(path) ELSE path)
    ELSE (IF StartsWith(path, <<"salt://">>) THEN Tail(path) ELSE path) \o <<"/">>

RECURSIVE cache_dir(_, _)
\* __salt__['cp.cache_dir'](path, saltenv, include_pat='*.tst'): the local
\* copies of the master's files below path that match the pattern, in
\* listing order; nothing when there are none
cache_dir(path, files) ==
    IF files = <<>> THEN <<>>
    ELSE IF StartsWith(files[1], DirPrefix(path)) /\ EndsWith(files[1], <<".tst">>)
    THEN <<CachePrefix \o files[1]>> \o cache_dir(path, Tail(files))
    ELSE cache_dir(path, Tail(files))

\* __salt__['cp.list_states'](): the states the minion can see
all_states == {<<"a">>, <<"a", ".", "b">>}

\* a slip: the directory is cached whether or not the state was processed
TryLevelUnchecked(lv, state_name, sls_path, files) ==
    [copy_states |-> lv.copy_states,
     processed |-> IF InSeq(state_name, lv.processed) THEN lv.processed
                   ELSE Append(lv.processed, state_name),
     this_cache_ret |-> cache_dir(sls_path, files),
     requests |-> Append(lv.requests, sls_path),
     cached |-> lv.cached \o cache_dir(sls_path, files)]

\* one step of the fallback: state_name is marked processed unless it is
\* already, copy_states is cleared when it is and never set again for this
\* entry, and the directory is cached only while copy_states holds
TryLevel(lv, state_name, sls_path, files) ==
    [copy_states |-> lv.copy_states /\ ~InSeq(state_name, lv.processed),
     processed |-> IF InSeq(state_name, lv.processed) THEN lv.processed
                   ELSE Append(lv.processed, state_name),
     this_cache_ret |-> IF lv.copy_states /\ ~InSeq(state_name, lv.processed)
                        THEN cache_dir(sls_path, files) ELSE lv.this_cache_ret,
     requests |-> IF lv.copy_states /\ ~InSeq(state_name, lv.processed)
                  THEN Append(lv.requests, sls_path) ELSE lv.requests,
     cached |-> lv.cached \o (IF lv.copy_states /\ ~InSeq(state_name, lv.processed)
                              THEN cache_dir(sls_path, files) ELSE lv.this_cache_ret)]

SlsPath(dir) == <<"salt://">> \o dir \o <<"/">> \o saltcheck_test_location

AllButLast(xs) == SubSeq(xs, 1, Len(xs) - 1)

\* a slip: the fallback goes through all three levels whatever they return
TryLevelsThrough(lv, sls, files) ==
    TryLevel(TryLevel(TryLevel(lv, sls, SlsPath(Replace(sls, ".", "/")), files),
                      Join(AllButLast(Split(sls, ".")), "."),
                      SlsPath(Join(AllButLast(Split(sls, ".")), "/")), files),
             Split(sls, ".")[1], SlsPath(Split(sls, ".")[1]), files)

\* the three levels: <state-path>, its parent, the top-level name; a level is
\* tried only when the one before left this_cache_ret empty
TryLevels(lv, sls, files) ==
    LET a == TryLevel(lv, sls, SlsPath(Replace(sls, ".", "/")), files)
        b == TryLevel(a, Join(AllButLast(Split(sls, ".")), "."),
                      SlsPath(Join(AllButLast(Split(sls, ".")), "/")), files)
        c == TryLevel(b, Split(sls, ".")[1], SlsPath(Split(sls, ".")[1]), files)
    IN  IF a.this_cache_ret # <<>> THEN a
        ELSE IF b.this_cache_ret # <<>> THEN b
        ELSE c

\* the two file names a state's tests go by
sls_path_names(sls) ==
    <<PathJoin(Join(Split(sls, "."), "/"),
               <<normpath(saltcheck_test_location), <<"init", ".tst">>>>),
      PathJoin(Join(AllButLast(Split(sls, ".")), "/"),
               <<normpath(saltcheck_test_location),
                 Split(sls, ".")[Len(Split(sls, "."))] \o <<".tst">>>>)>>

\* list.remove(x): the first element equal to x goes
RemoveFirst(xs, x) ==
    LET i == CHOOSE i \in 1..Len(xs) : xs[i] = x /\ \A j \in 1..(i - 1) : xs[j] # x
    IN  SubSeq(xs, 1, i - 1) \o SubSeq(xs, i + 1, Len(xs))

RECURSIVE MatchLoop(_, _, _, _)
\* `for this_cached_test_file in cached_copied_files`, removing from the list
\* it iterates over: the iterator goes on at the next index of the shortened
\* list; removing a file a second time raises ValueError
MatchLoop(pool, i, names, tf) ==
    IF i > Len(pool) THEN [pool |-> pool, test_files |-> tf, exc |-> "none"]
    ELSE LET x == pool[i]
             after1 == IF EndsWith(x, names[1]) THEN RemoveFirst(pool, x) ELSE pool
         IN  IF EndsWith(x, names[2]) /\ ~InSeq(x, after1)
             THEN [pool |-> after1, test_files |-> tf \cup {x}, exc |-> "ValueError"]
             ELSE MatchLoop(IF EndsWith(x, names[2]) THEN RemoveFirst(after1, x) ELSE after1,
                            i + 1, names,
                            IF EndsWith(x, names[1]) \/ EndsWith(x, names[2])
                            THEN tf \cup {x} ELSE tf)

Elems(xs) == {xs[i] : i \in 1..Len(xs)}

\* a slip: check_all is not looked at, only name-matched files are taken
ResolveEntryMatchedOnly(st, sls, check_all, files) ==
    LET lv == TryLevels([copy_states |-> TRUE, processed |-> st.processed,
                         this_cache_ret |-> <<>>, requests |-> st.requests,
                         cached |-> st.cached], sls, files)
        m == MatchLoop(lv.cached, 1, sls_path_names(sls), st.test_files)
    IN  [test_files |-> m.test_files, processed |-> lv.processed, cached |-> m.pool,
         requests |-> lv.requests, exc |-> m.exc, returned_early |-> FALSE]

\* the body of `for low_data in ret` for an entry that has '__sls__'
ResolveEntry(st, sls, check_all, files) ==
    LET lv == TryLevels([copy_states |-> TRUE, processed |-> st.processed,
                         this_cache_ret |-> <<>>, requests |-> st.requests,
                         cached |-> st.cached], sls, files)
        all == IF lv.this_cache_ret # <<>> /\ check_all
               THEN st.test_files \cup Elems(lv.this_cache_ret) ELSE st.test_files
        m == MatchLoop(lv.cached, 1, sls_path_names(sls), all)
    IN  [test_files |-> m.test_files, processed |-> lv.processed, cached |-> m.pool,
         requests |-> lv.requests, exc |-> m.exc, returned_early |-> FALSE]

RECURSIVE ResolvePlan(_, _, _, _)
\* `for low_data in ret`: an entry that is no dict ends the call, an entry
\* without '__sls__' is passed over
ResolvePlan(st, ret, check_all, files) ==
    IF ret = <<>> \/ st.exc # "none" THEN st
    ELSE IF ret[1].kind # "dict" THEN [st EXCEPT !.returned_early = TRUE]
    ELSE IF ~ret[1].has_sls THEN ResolvePlan(st, Tail(ret), check_all, files)
    ELSE ResolvePlan(ResolveEntry(st, ret[1].sls, check_all, files), Tail(ret), check_all, files)

SlsEntry(sls) == [kind |-> "dict", has_sls |-> TRUE, sls |-> sls]

\* StateTestLoader.add_test_files_for_sls on a minion that is not run over
\* salt-ssh: tf is self.test_files before the call, low what
\* state.show_low_sls returns for a known state, files the master's files
add_test_files_for_sls(tf, sls_name, check_all, low, files) ==
    ResolvePlan([test_files |-> tf, processed |-> <<>>, cached |-> <<>>, requests |-> <<>>,
                 exc |-> "none", returned_early |-> FALSE],
                IF sls_name \in all_states THEN low ELSE <<SlsEntry(sls_name)>>,
                check_all, files)

RECURSIVE RequestLog(_, _, _, _)
\* the cp.cache_dir calls of `for low_data in ret`, entry by entry, for the
\* entries the loop goes through
RequestLog(st, ret, check_all, files) ==
    IF ret = <<>> \/ st.exc # "none" \/ ret[1].kind # "dict" THEN <<>>
    ELSE IF ~ret[1].has_sls THEN <<<<>>>> \o RequestLog(st, Tail(ret), check_all, files)
    ELSE <<SubSeq(ResolveEntry(st, ret[1].sls, check_all, files).requests,
                  Len(st.requests) + 1,
                  Len(ResolveEntry(st, ret[1].sls, check_all, files).requests))>>
         \o RequestLog(ResolveEntry(st, ret[1].sls, check_all, files), Tail(ret), check_all,
                       files)

\* the calls of one add_test_files_for_sls by plan entry
RequestsByEntry(tf, sls_name, check_all, low, files) ==
    RequestLog([test_files |-> tf, processed |-> <<>>, cached |-> <<>>, requests |-> <<>>,
                exc |-> "none", returned_early |-> FALSE],
               IF sls_name \in all_states THEN low ELSE <<SlsEntry(sls_name)>>,
               check_all, files)

-----------------------------------------------------------------------------
(* StateTestLoader: loading the suite *)

\* the key json.dumps writes for a mapping key
JsonKey(key) ==
    CASE key.t = "str" -> key.s
      [] key.t = "int" -> IntStr(key.n)
      [] key.t = "bool" -> IF key.n = 1 THEN <<"t", "r", "u", "e">>
                           ELSE <<"f", "a", "l", "s", "e">>
      [] OTHER -> <<"n", "u", "l", "l">>

HasName(od, key) == \E i \in 1..Len(od) : od[i].key = key

\* a slip: a name that is already there keeps its first definition
OdKeepFirst(od, key, value) ==
    IF HasName(od, key) THEN od ELSE Append(od, [key |-> key, value |-> value])

\* od[key] = value on an OrderedDict: a new key goes last, a known key keeps
\* its place and takes the new value
OdSet(od, key, value) ==
    IF HasName(od, key)
    THEN [i \in 1..Len(od) |-> IF od[i].key = key THEN [key |-> key, value |-> value] ELSE od[i]]
    ELSE Append(od, [key |-> key, value |-> value])

RECURSIVE OdUpdate(_, _)
\* for key, value in pairs: od[key] = value
OdUpdate(od, pairs) ==
    IF pairs = <<>> THEN od
    ELSE OdUpdate(OdSet(od, pairs[1].key, pairs[1].value), Tail(pairs))

\* loads(dumps(tests), object_pairs_hook=OrderedDict): keys become text, and
\* of two keys with the same text the later value stays
JsonRoundTrip(tests) ==
    OdUpdate(<<>>, [i \in 1..Len(tests) |->
                       [key |-> JsonKey(tests[i].key), value |-> tests[i].value]])

\* the test files there can be on the master
Fa_init == <<"a", "/", "saltcheck-tests", "/", "init", ".tst">>
Fa_a == <<"a", "/", "saltcheck-tests", "/", "a", ".tst">>
Fa_b == <<"a", "/", "saltcheck-tests", "/", "b", ".tst">>
Fa_x == <<"a", "/", "saltcheck-tests", "/", "x", ".tst">>
Fab_init == <<"a", "/", "b", "/", "saltcheck-tests", "/", "init", ".tst">>
Fab_c == <<"a", "/", "b", "/", "saltcheck-tests", "/", "c", ".tst">>
Fabc_init == <<"a", "/", "b", "/", "c", "/", "saltcheck-tests", "/", "init", ".tst">>

CandidateFiles == <<Fa_init, Fa_a, Fa_b, Fa_x, Fab_init, Fab_c, Fabc_init>>

T1 == StrV(<<"t", "1">>)
T2 == StrV(<<"t", "2">>)
T3 == StrV(<<"t", "3">>)

\* the test names a file defines, in the order of the file
TestNames(rel) ==
    CASE rel = Fa_init -> <<T1, T2>>
      [] rel = Fa_a -> <<T1, IntV(1)>>
      [] rel = Fa_b -> <<T2, T1>>
      [] rel = Fa_x -> <<T1>>
      [] rel = Fab_init -> <<T1, T3>>
      [] rel = Fab_c -> <<IntV(1), StrV(<<"1">>)>>
      [] rel = Fabc_init -> <<T3>>
      [] OTHER -> <<>>

\* _render_file(file_path): the file's tests by name; a definition is known
\* by the file it stands in and its place there
_render_file(file_path) ==
    [i \in 1..Len(TestNames(Tail(file_path))) |->
        [key |-> TestNames(Tail(file_path))[i],
         value |-> [file |-> file_path, pos |-> i]]]

\* StateTestLoader._load_file_salt_rendered on self.test_dict = od
_load_file_salt_rendered(od, filepath) == OdUpdate(od, JsonRoundTrip(_render_file(filepath)))

RECURSIVE LoadFiles(_, _)
\* `for myfile in self.test_files`, the set being read in the given order
LoadFiles(order, od) ==
    IF order = <<>> THEN od
    ELSE LoadFiles(Tail(order), _load_file_salt_rendered(od, order[1]))

\* the orders a set can be iterated in
Orders(S) ==
    {f \in [1..Cardinality(S) -> S] : \A i, j \in 1..Cardinality(S) : f[i] = f[j] => i = j}

\* a slip: the working file set survives the load
LoadKeepingFiles(order) ==
    [test_dict |-> LoadFiles(order, <<>>), test_files |-> Elems(order)]

\* StateTestLoader.load_test_suite, the file set being read in the given
\* order: self.test_dict starts anew and self.test_files ends empty
load_test_suite(order) ==
    [test_dict |-> LoadFiles(order, <<>>), test_files |-> {}]

-----------------------------------------------------------------------------
(* one resolve / load cycle on a new StateTestLoader *)

\* the most test files on the master, and the most entries of a low-data plan
MaxFiles == 3
MaxPlanLen == 2

StateNames == {<<"a">>, <<"a", ".", "b">>, <<"a", ".", "b", ".", "c">>}

PlanEntries ==
    {SlsEntry(n) : n \in StateNames}
    \cup {[kind |-> "dict", has_sls |-> FALSE, sls |-> <<>>],
          [kind |-> "other", has_sls |-> FALSE, sls |-> <<>>]}

Plans == UNION {[1..n -> PlanEntries] : n \in 0..MaxPlanLen}

Listings ==
    {Keep(CandidateFiles, S) : S \in {X \in SUBSET Elems(CandidateFiles) : Cardinality(X) <= MaxFiles}}

InitLoader ==
    /\ master_files \in Listings
    /\ request \in [sls_name : StateNames, check_all : BOOLEAN]
    /\ low_sls \in Plans
    /\ request.sls_name \notin all_states => low_sls = <<>>
    /\ NewLoader
    /\ RunIdle
    /\ FnIdle
    /\ BatchIdle

\* stl.add_test_files_for_sls(state_name, check_all)
AddTestFilesForSls ==
    /\ stl_pc = "new"
    /\ LET r == add_test_files_for_sls(test_files, request.sls_name, request.check_all,
                                       low_sls, master_files)
       IN  /\ test_files' = r.test_files
           /\ cache_requests' = r.requests
           /\ processed_states' = r.processed
           /\ resolve_exc' = r.exc
           /\ stl_pc' = IF r.exc = "none" THEN "resolved" ELSE "raised"
    /\ entry_requests' = RequestsByEntry(test_files, request.sls_name, request.check_all,
                                         low_sls, master_files)
    /\ UNCHANGED <<master_files, low_sls, request, loader_test_dict, last_load,
                   runVars, fnVars, batchVars>>

\* stl.load_test_suite()
LoadTestSuite ==
    /\ stl_pc = "resolved"
    /\ \E order \in Orders(test_files) :
          /\ loader_test_dict' = load_test_suite(order).test_dict
          /\ test_files' = load_test_suite(order).test_files
          /\ last_load' = order
    /\ stl_pc' = "loaded"
    /\ UNCHANGED <<master_files, low_sls, request, cache_requests, entry_requests,
                   processed_states, resolve_exc, runVars, fnVars, batchVars>>

NextLoader == AddTestFilesForSls \/ LoadTestSuite

SpecLoader == InitLoader /\ [][NextLoader]_vars

-----------------------------------------------------------------------------
(* properties of the StateTestLoader, under SpecLoader *)

TopLevel(sls) == Split(sls, ".")[1]

TopLevelInit(sls) == TopLevel(sls) \o <<"/">> \o saltcheck_test_location \o <<"/", "init", ".tst">>

\* C9: for a known state whose most specific test directory yields no cached
\* files but whose top-level directory holds init.tst, add_test_files_for_sls
\* with check_all false leaves the file set equal to exactly that init.tst.
C9_TopLevelInitIsResolved ==
    (/\ stl_pc = "resolved"
     /\ request.sls_name \in all_states
     /\ low_sls = <<SlsEntry(request.sls_name)>>
     /\ ~request.check_all
     /\ cache_dir(SlsPath(Replace(request.sls_name, ".", "/")), master_files) = <<>>
     /\ InSeq(TopLevelInit(request.sls_name), master_files))
        => test_files = {CachePrefix \o TopLevelInit(request.sls_name)}

Defines(file, name) ==
    \E i \in 1..Len(TestNames(Tail(file))) : JsonKey(TestNames(Tail(file))[i]) = name

LoadedNames == {name \in UNION {{JsonKey(TestNames(Tail(last_load[i]))[j]) :
                                    j \in 1..Len(TestNames(Tail(last_load[i])))} :
                                i \in 1..Len(last_load)} : TRUE}

\* the file read last among those that define name
LastDefining(name) ==
    last_load[CHOOSE i \in 1..Len(last_load) :
                 /\ Defines(last_load[i], name)
                 /\ \A j \in (i + 1)..Len(last_load) : ~Defines(last_load[j], name)]

\* C10: after load_test_suite the mapping holds, for every test name some
\* file read defines, exactly one definition, the one from the file read last
\* among those defining it, and nothing under any other name.
C10_LastWriteWins ==
    stl_pc = "loaded" =>
        /\ \A i, j \in 1..Len(loader_test_dict) :
              loader_test_dict[i].key = loader_test_dict[j].key => i = j
        /\ {loader_test_dict[i].key : i \in 1..Len(loader_test_dict)} = LoadedNames
        /\ \A i \in 1..Len(loader_test_dict) :
              loader_test_dict[i].value.file = LastDefining(loader_test_dict[i].key)

\* two files that both define t1 were loaded, with a name only one defines
C10_Witness ==
    /\ stl_pc = "loaded"
    /\ Len(last_load) = 2
    /\ Defines(last_load[1], <<"t", "1">>) /\ Defines(last_load[2], <<"t", "1">>)
    /\ \E i \in 1..Len(loader_test_dict) :
          /\ loader_test_dict[i].key = <<"t", "1">>
          /\ loader_test_dict[i].value.file = last_load[2]
    /\ \E i \in 1..Len(loader_test_dict) :
          /\ loader_test_dict[i].key # <<"t", "1">>
          /\ loader_test_dict[i].value.file = last_load[1]
          /\ ~Defines(last_load[2], loader_test_dict[i].key)

-----------------------------------------------------------------------------
(* run_state_tests: a batch of state names on one SaltCheck and one       *)
(* StateTestLoader                                                        *)

\* the most state names in a batch, and the most test files on the master
\* during a batch
MaxBatch == 2
MaxBatchFiles == 2

\* the minion of the batch knows test and saltcheck; test.echo gives back "5"
BatchMinion == [modules |-> {<<"test">>, <<"saltcheck">>}, lookup |-> "ok"]
BatchInvoker == Ok(StrV(<<"5">>))

EchoTest(skip, has_assertion, expected) ==
    TestDict(skip, TRUE, <<"test", ".", "echo">>, has_assertion, "assertEqual", TRUE, expected,
             FALSE, <<>>, <<>>, {}, FALSE, TRUE)

PassingTest == EchoTest(FALSE, TRUE, StrV(<<"5">>))
FailingTest == EchoTest(FALSE, TRUE, StrV(<<"a", "b">>))
SkippedTest == EchoTest(TRUE, TRUE, StrV(<<"5">>))
InvalidTest == EchoTest(FALSE, FALSE, StrV(<<"5">>))
ApplyTest ==
    TestDict(FALSE, TRUE, StateApply, FALSE, "", FALSE, NoneV, FALSE, <<>>, <<>>, {}, FALSE, TRUE)

\* the test definition that stands at a place of a file
TestBody(def) ==
    LET rel == Tail(def.file)
    IN  CASE rel = Fa_init -> <<PassingTest, FailingTest>>[def.pos]
          [] rel = Fa_a -> <<FailingTest, SkippedTest>>[def.pos]
          [] rel = Fa_b -> <<PassingTest, ApplyTest>>[def.pos]
          [] rel = Fa_x -> <<InvalidTest>>[def.pos]
          [] rel = Fab_init -> <<SkippedTest, PassingTest>>[def.pos]
          [] rel = Fab_c -> <<PassingTest, InvalidTest>>[def.pos]
          [] OTHER -> PassingTest

\* __salt__['state.show_low_sls'](sls_name, test=True) for the known states:
\* a.b includes a
ShowLowSls(sls_name) ==
    IF sls_name = <<"a">> THEN <<SlsEntry(<<"a">>)>>
    ELSE IF sls_name = <<"a", ".", "b">> THEN <<SlsEntry(<<"a">>), SlsEntry(<<"a", ".", "b">>)>>
    ELSE <<>>

\* the words a status can start with
StatusStartsWith(status, word) ==
    /\ status # <<>>
    /\ CASE word = "Pass" -> status[1] = "Pass"
         [] word = "Skip" -> status[1] = "Skip"
         [] word = "Fail" ->
               status[1] \in {"Fail: ", "Fail - bad assertion", "Fail - invalid test"}
         [] OTHER -> FALSE

RECURSIVE GroupTally(_, _)
\* the inner loop of _generate_out_list over one state's results
GroupTally(group, tally) ==
    IF group = <<>> THEN tally
    ELSE GroupTally(Tail(group),
            [tally EXCEPT
                !.passed = @ + (IF StatusStartsWith(group[1].value.status, "Pass") THEN 1 ELSE 0),
                !.failed = @ + (IF StatusStartsWith(group[1].value.status, "Fail") THEN 1 ELSE 0),
                !.skipped = @ + (IF StatusStartsWith(group[1].value.status, "Skip") THEN 1 ELSE 0),
                !.total_time = @ + group[1].value.duration])

RECURSIVE Tally(_, _)
\* `for state in results`: a state without results is a missing test
Tally(res, tally) ==
    IF res = <<>> THEN tally
    ELSE IF res[1].value = <<>>
    THEN Tally(Tail(res), [tally EXCEPT !.missing_tests = @ + 1])
    ELSE Tally(Tail(res), GroupTally(res[1].value, tally))

RECURSIVE InsertByKey(_, _)
InsertByKey(sorted, e) ==
    IF sorted = <<>> THEN <<e>>
    ELSE IF StrCmp(e.key, sorted[1].key) < 0 THEN <<e>> \o sorted
    ELSE <<sorted[1]>> \o InsertByKey(Tail(sorted), e)

RECURSIVE SortedByKey(_)
\* sorted(out_list, key=lambda x: sorted(x.keys())): stable, by state name
SortedByKey(entries) ==
    IF entries = <<>> THEN <<>>
    ELSE InsertByKey(SortedByKey(SubSeq(entries, 1, Len(entries) - 1)), entries[Len(entries)])

\* a slip: only failed tests set the exit code
RetcodeFailedOnly(failed, skipped, missing_tests) == IF failed # 0 THEN 1 ELSE 0

\* __context__['retcode']
Retcode(failed, skipped, missing_tests) ==
    IF failed + skipped + missing_tests # 0 THEN 1 ELSE 0

\* _generate_out_list(results): the report and the exit code it sets
_generate_out_list(res) ==
    LET tally == Tally(res, [passed |-> 0, failed |-> 0, skipped |-> 0, missing_tests |-> 0,
                             total_time |-> 0])
    IN  [out_list |-> SortedByKey(res) \o <<[key |-> <<"TEST RESULTS">>, value |-> tally]>>,
         retcode |-> Retcode(tally.failed, tally.skipped, tally.missing_tests)]

BatchListings ==
    {Keep(CandidateFiles, S) :
        S \in {X \in SUBSET Elems(CandidateFiles) : Cardinality(X) <= MaxBatchFiles}}

InitBatch ==
    /\ sls_list \in UNION {[1..n -> StateNames] : n \in 1..MaxBatch}
    /\ master_files \in BatchListings
    /\ request \in [sls_name : {<<>>}, check_all : BOOLEAN]
    /\ test_time \in {0, MaxElapsed}
    /\ batch_pc = "resolve"
    /\ NewBatch
    /\ low_sls = <<>>
    /\ NewLoader
    /\ test_dict = IdleTest
    /\ invoker_ret = BatchInvoker
    /\ minion = BatchMinion
    /\ result = IdleResult
    /\ FnIdle

\* stl.add_test_files_for_sls(state_name, check_all)
BatchResolve ==
    /\ batch_pc = "resolve"
    /\ batch_steps' = batch_steps + 1
    /\ request' = [request EXCEPT !.sls_name = sls_list[state_index]]
    /\ low_sls' = ShowLowSls(sls_list[state_index])
    /\ LET r == add_test_files_for_sls(test_files, sls_list[state_index], request.check_all,
                                       ShowLowSls(sls_list[state_index]), master_files)
       IN  /\ test_files' = r.test_files
           /\ cache_requests' = r.requests
           /\ processed_states' = r.processed
           /\ resolve_exc' = r.exc
           /\ batch_exc' = r.exc
           /\ batch_pc' = IF r.exc = "none" THEN "load" ELSE "raised"
           /\ stl_pc' = IF r.exc = "none" THEN "resolved" ELSE "raised"
    /\ entry_requests' = RequestsByEntry(test_files, sls_list[state_index], request.check_all,
                                         ShowLowSls(sls_list[state_index]), master_files)
    /\ UNCHANGED <<master_files, loader_test_dict, last_load, sls_list, state_index, results,
                   results_dict, out_list, retcode, test_time, runVars, fnVars>>

\* stl.load_test_suite(); results_dict = OrderedDict()
BatchLoad ==
    /\ batch_pc = "load"
    /\ batch_steps' = batch_steps + 1
    /\ \E order \in Orders(test_files) :
          /\ loader_test_dict' = load_test_suite(order).test_dict
          /\ test_files' = load_test_suite(order).test_files
          /\ last_load' = order
    /\ results_dict' = <<>>
    /\ stl_pc' = "loaded"
    /\ batch_pc' = "run"
    /\ UNCHANGED <<master_files, low_sls, request, cache_requests, entry_requests,
                   processed_states, resolve_exc, sls_list, state_index, results, out_list, retcode, batch_exc,
                   test_time, runVars, fnVars>>

\* one turn of `for key, value in stl.test_dict.items()`:
\* results_dict[key] = scheck.run_test(value); an exception ends the batch
BatchRunTest ==
    /\ batch_pc = "run"
    /\ batch_steps' = batch_steps + 1
    /\ Len(results_dict) < Len(loader_test_dict)
    /\ LET entry == loader_test_dict[Len(results_dict) + 1]
           r == run_test(TestBody(entry.value), minion, invoker_ret, test_time)
       IN  /\ test_dict' = TestBody(entry.value)
           /\ result' = r
           /\ results_dict' = IF r.kind = "return" THEN OdSet(results_dict, entry.key, r)
                              ELSE results_dict
           /\ batch_exc' = r.exc
           /\ batch_pc' = IF r.kind = "return" THEN "run" ELSE "raised"
    /\ UNCHANGED <<invoker_ret, minion, sls_list, state_index, results, out_list, retcode,
                   test_time, loaderVars, fnVars>>

\* results[state_name] = results_dict, and on to the next state name
BatchNextState ==
    /\ batch_pc = "run"
    /\ batch_steps' = batch_steps + 1
    /\ Len(results_dict) = Len(loader_test_dict)
    /\ results' = OdSet(results, sls_list[state_index], results_dict)
    /\ IF state_index < Len(sls_list)
       THEN state_index' = state_index + 1 /\ batch_pc' = "resolve"
       ELSE state_index' = state_index /\ batch_pc' = "summary"
    /\ UNCHANGED <<sls_list, results_dict, out_list, retcode, batch_exc, test_time,
                   loaderVars, runVars, fnVars>>

\* return _generate_out_list(results)
BatchSummary ==
    /\ batch_pc = "summary"
    /\ batch_steps' = batch_steps + 1
    /\ out_list' = _generate_out_list(results).out_list
    /\ retcode' = _generate_out_list(results).retcode
    /\ batch_pc' = "done"
    /\ UNCHANGED <<sls_list, state_index, results, results_dict, batch_exc, test_time,
                   loaderVars, runVars, fnVars>>

NextBatch == BatchResolve \/ BatchLoad \/ BatchRunTest \/ BatchNextState \/ BatchSummary

SpecBatch == InitBatch /\ [][NextBatch]_vars

\* a step of the call, seen by what it does to batch_steps only
StepTaken ==
    /\ batch_pc \in {"resolve", "load", "run", "summary"}
    /\ batch_steps' = batch_steps + 1

\* run_state_tests is one synchronous call: it goes on while it has
\* something to do.  Some step of NextBatch is enabled exactly when batch_pc
\* is one of the four places above, and every step adds one to batch_steps,
\* so weak fairness of StepTaken on batch_steps is weak fairness of NextBatch
SpecBatchLive == SpecBatch /\ WF_batch_steps(StepTaken)

-----------------------------------------------------------------------------
(* properties of run_state_tests, under SpecBatch *)

\* the files a resolve of the current state name puts into an empty file set
ResolvedNow ==
    add_test_files_for_sls({}, request.sls_name, request.check_all, low_sls,
                           master_files).test_files

\* C11: in every resolve/load cycle of a batch, after load_test_suite the
\* working file set is empty, the files read are files resolved for the
\* current state name, every definition of the test mapping comes from a
\* file read in this load, and the state's result group holds results of
\* this mapping only.
C11_NoLeakBetweenCycles ==
    (batch_pc # "idle" /\ stl_pc = "loaded") =>
        /\ test_files = {}
        /\ Elems(last_load) \subseteq ResolvedNow
        /\ \A i \in 1..Len(loader_test_dict) :
              loader_test_dict[i].value.file \in Elems(last_load)
        /\ Len(results_dict) <= Len(loader_test_dict)
        /\ \A i \in 1..Len(results_dict) : results_dict[i].key = loader_test_dict[i].key

\* the second state name is loaded, the first one had tests from a file the
\* second does not resolve, and the second has tests of its own
C11_Witness ==
    /\ batch_pc = "run"
    /\ stl_pc = "loaded"
    /\ state_index = 2
    /\ Len(results) = 1
    /\ results[1].value # <<>>
    /\ loader_test_dict # <<>>
    /\ add_test_files_for_sls({}, sls_list[1], request.check_all, ShowLowSls(sls_list[1]),
                              master_files).test_files \cap ResolvedNow = {}

\* the results of the batch as (state, test) places
ResultPlaces ==
    UNION {{<<i, j>> : j \in 1..Len(results[i].value)} : i \in 1..Len(results)}
PlacesWith(word) ==
    {p \in ResultPlaces : StatusStartsWith(results[p[1]].value[p[2]].value.status, word)}
MissingStates == {i \in 1..Len(results) : results[i].value = <<>>}
Summary == out_list[Len(out_list)].value

\* C12: in the summary _generate_out_list builds, Missing Tests counts the
\* state names whose result group is empty, which add no test result to the
\* other counters; retcode is 1 iff Failed + Skipped + Missing Tests > 0 and
\* 0 otherwise; and the report holds every state's group, whatever the
\* retcode.
C12_MissingTestsAndRetcode ==
    batch_pc = "done" =>
        /\ Summary.missing_tests = Cardinality(MissingStates)
        /\ Summary.passed = Cardinality(PlacesWith("Pass"))
        /\ Summary.failed = Cardinality(PlacesWith("Fail"))
        /\ Summary.skipped = Cardinality(PlacesWith("Skip"))
        /\ Summary.passed + Summary.failed + Summary.skipped = Cardinality(ResultPlaces)
        /\ retcode \in {0, 1}
        /\ retcode = 1 <=>
              Cardinality(PlacesWith("Fail")) + Cardinality(PlacesWith("Skip"))
                  + Cardinality(MissingStates) > 0
        /\ Len(out_list) = Len(results) + 1
        /\ \A i \in 1..Len(results) : \E j \in 1..Len(results) : out_list[j] = results[i]

\* a batch in which every test passed and one state name had no tests
C12_Witness ==
    /\ batch_pc = "done"
    /\ Cardinality(MissingStates) = 1
    /\ Cardinality(PlacesWith("Pass")) > 0
    /\ Summary.failed = 0 /\ Summary.skipped = 0
    /\ retcode = 1

-----------------------------------------------------------------------------
(* more properties of the StateTestLoader, under SpecLoader *)

\* the plan add_test_files_for_sls goes through
Plan == IF request.sls_name \in all_states THEN low_sls ELSE <<SlsEntry(request.sls_name)>>

\* the entries of the plan the loop reaches: those before the first entry
\* that is not a dict
Reached(k) == k \in 1..Len(Plan) /\ \A j \in 1..k : Plan[j].kind = "dict"

NameMatched(f) ==
    \E k \in 1..Len(Plan) :
        /\ Reached(k) /\ Plan[k].has_sls
        /\ \/ EndsWith(f, sls_path_names(Plan[k].sls)[1])
           \/ EndsWith(f, sls_path_names(Plan[k].sls)[2])

\* the directories (a), (b), (c) of a nested-state identifier
Levels(sls) ==
    <<SlsPath(Replace(sls, ".", "/")),
      SlsPath(Join(AllButLast(Split(sls, ".")), "/")),
      SlsPath(TopLevel(sls))>>

\* C15: for each plan entry with a nested-state identifier the caching
\* requests issued are an initial part of (a), (b), (c), in this order, and
\* every request but the last issued for the entry returned no files: (b)
\* comes only after an empty (a), (c) only after an empty (b), and nothing
\* comes after a request that returned files.
C15_FallbackOrder ==
    stl_pc = "resolved" =>
        \A k \in 1..Len(entry_requests) :
            Plan[k].has_sls =>
                /\ Len(entry_requests[k]) <= 3
                /\ \A i \in 1..Len(entry_requests[k]) :
                      entry_requests[k][i] = Levels(Plan[k].sls)[i]
                /\ \A i \in 1..(Len(entry_requests[k]) - 1) :
                      cache_dir(entry_requests[k][i], master_files) = <<>>

\* an entry whose fallback stopped at (b): (a) was empty, (b) returned files
\* and (c), a third directory, was not requested
C15_Witness ==
    /\ stl_pc = "resolved"
    /\ \E k \in 1..Len(entry_requests) :
          /\ Plan[k].has_sls
          /\ Len(entry_requests[k]) = 2
          /\ cache_dir(entry_requests[k][2], master_files) # <<>>
          /\ Levels(Plan[k].sls)[3] # Levels(Plan[k].sls)[2]
          /\ ~InSeq(Levels(Plan[k].sls)[3], cache_requests)

\* C16: within one add_test_files_for_sls call no remote test directory is
\* requested for caching more than once, whatever the plan.
C16_DirectoryCachedAtMostOnce ==
    stl_pc = "resolved" =>
        \A i, j \in 1..Len(cache_requests) : cache_requests[i] = cache_requests[j] => i = j

\* a plan whose second entry names a directory the first entry had requested
C16_Witness ==
    /\ stl_pc = "resolved"
    /\ Len(entry_requests) = 2
    /\ Plan[1].has_sls /\ Plan[2].has_sls
    /\ entry_requests[1] # <<>>
    /\ \E i \in 1..3 : InSeq(Levels(Plan[2].sls)[i], entry_requests[1])

\* the files cached for the entries up to the k-th
CachedUpTo(k) ==
    UNION {Elems(cache_dir(entry_requests[j][i], master_files)) :
              <<j, i>> \in {p \in (1..k) \X (1..3) : p[2] <= Len(entry_requests[p[1]])}}

\* C17: for each plan entry, every cached file whose path ends with one of
\* the two test file names of the entry is in the result set, whatever the
\* order of the files and also when several files match.
C17_EveryMatchIsTaken ==
    stl_pc = "resolved" =>
        \A k \in 1..Len(entry_requests) :
            Plan[k].has_sls =>
                \A f \in CachedUpTo(k) :
                    (\/ EndsWith(f, sls_path_names(Plan[k].sls)[1])
                     \/ EndsWith(f, sls_path_names(Plan[k].sls)[2])) => f \in test_files

\* C13: after add_test_files_for_sls with check_all true the file set holds
\* every file a caching request of the call returned (a request that
\* returns files is the one its entry's fallback stops at); with check_all
\* false it holds name-matched files only.
C13_CheckAllTakesTheDirectory ==
    stl_pc = "resolved" =>
        /\ request.check_all =>
              \A i \in 1..Len(cache_requests) :
                  Elems(cache_dir(cache_requests[i], master_files)) \subseteq test_files
        /\ ~request.check_all => \A f \in test_files : NameMatched(f)

\* check_all brought in a file that matches no test file name of the plan,
\* from a directory the fallback reached after an empty one
C13_Witness ==
    /\ stl_pc = "resolved"
    /\ request.check_all
    /\ \E f \in test_files : ~NameMatched(f)
    /\ \E i \in 1..Len(cache_requests) : cache_dir(cache_requests[i], master_files) = <<>>

\* the test directory of a state identifier, as the fallback writes it
DirectoryOf(state_name) == SlsPath(Replace(state_name, ".", "/"))

\* how many caching requests of the call were for this directory
TimesRequested(path) ==
    Cardinality({j \in 1..Len(cache_requests) : cache_requests[j] = path})

\* C21: at the end of an add_test_files_for_sls pass every state identifier
\* in processed_states has had its test directory requested for caching
\* exactly once: none is marked processed without its directory being cached.
C21_ProcessedIsCachedOnce ==
    stl_pc = "resolved" =>
        \A i \in 1..Len(processed_states) :
            TimesRequested(DirectoryOf(processed_states[i])) = 1

\* the part of C21 that does hold: a directory that is requested belongs to
\* a processed identifier, and no identifier is recorded twice
RequestedIsProcessed ==
    stl_pc = "resolved" =>
        /\ \A j \in 1..Len(cache_requests) :
              \E i \in 1..Len(processed_states) :
                  cache_requests[j] = DirectoryOf(processed_states[i])
        /\ \A i, j \in 1..Len(processed_states) :
              processed_states[i] = processed_states[j] => i = j

-----------------------------------------------------------------------------
(* more properties of run_test, under Spec *)

NeedsNoExpected == {"assertEmpty", "assertNotEmpty", "assertTrue", "assertFalse"}

\* C18: a test definition that is not skipped passes validation only if its
\* module is known and its function known in it, its assertion is one of
\* the twelve, and, unless the assertion needs none, it has an
\* expected-return with a value.
C18_ValidOnlyIfComplete ==
    (Ran /\ ~test_dict.skip /\ result.validation.exc = "none" /\ result.validation.valid) =>
        /\ test_dict.has_mf
        /\ <<test_dict.mf[1]>> \in minion.modules
        /\ test_dict.mf \in KnownVerbs(minion)
        /\ test_dict.has_assertion /\ test_dict.assertion \in assertions_list
        /\ test_dict.assertion \notin NeedsNoExpected =>
              (test_dict.has_expected /\ test_dict.expected # NoneV)

\* C20: the status "Fail - bad assertion" never comes up, and a test
\* definition that passes validation, is not skipped and does not use
\* saltcheck.state_apply has an assertion key naming one of the twelve
\* assertions, so that run_test, when it gets to the if/elif chain, takes one
\* of the twelve branches and assertion_desc is bound.
C20_BadAssertionUnreachable ==
    Ran =>
        /\ result.status # <<"Fail - bad assertion">>
        /\ (/\ result.validation.exc = "none" /\ result.validation.valid
            /\ ~test_dict.skip
            /\ test_dict.mf # StateApply) =>
              /\ test_dict.has_assertion
              /\ test_dict.assertion \in assertions_list
              /\ result.exc \notin {"KeyError", "UnboundLocalError"}
              /\ result.kind = "return" =>
                    (result.asserted /\ result.assertion_desc # "unbound")

\* a test with an assertion that needs no expected-return went through
\* validation on four points and its branch of the chain
C20_Witness ==
    /\ Ran
    /\ result.validation.valid /\ result.validation.required_total = 4
    /\ ~test_dict.skip
    /\ ~test_dict.has_expected
    /\ result.kind = "return"
    /\ result.assertion_desc = "True is"

RECURSIVE Nested(_, _)
\* the value under a path of keys in nested mappings, false where a key is
\* missing or the value reached is no mapping
Nested(v, path) ==
    IF path = <<>> THEN v
    ELSE IF v.t = "dict" /\ HasKey(v, StrV(path[1]))
    THEN Nested(v.l[IndexOfKey(v, StrV(path[1]))], Tail(path))
    ELSE BoolV(FALSE)

\* run_test dispatched the operation and the invoker returned
Dispatched == Ran /\ result.calls # NoCalls /\ invoker_ret.exc = "none"

SectionApplies == invoker_ret.v.t = "dict" /\ test_dict.has_section

SectionValueIsNested ==
    (Dispatched /\ result.asserted) =>
        result.actual = IF SectionApplies
                        THEN Nested(invoker_ret.v, Split(test_dict.section, test_dict.delimiter))
                        ELSE invoker_ret.v

\* every test of the suite that is loaded has its result, in suite order
SuiteReported ==
    /\ batch_pc # "raised"
    /\ Len(results_dict) = Len(loader_test_dict)
    /\ \A i \in 1..Len(results_dict) : results_dict[i].key = loader_test_dict[i].key

\* C19: in run_state_tests, the invoker and the renderer never raising,
\* every test of every loaded suite eventually has a result record in its
\* state's group, in suite order, and the summary is eventually returned,
\* whatever the tests of the batch do.
C19_EveryTestIsReported ==
    /\ [](batch_pc = "run" => <>SuiteReported)
    /\ <>(batch_pc = "done")

====
